---------------------------- MODULE Spec2Model ----------------------------
(***************************************************************************)
(* State-machine model of the MCP client UI in src/app/main.py.           *)
(*                                                                         *)
(* The Streamlit script is re-run from the top on every user interaction. *)
(* Each action below is one such run: the widgets are drawn, at most one  *)
(* button is reported as pressed, and the handler of that button runs to  *)
(* its end (including a trailing st.rerun()).  The variables are the keys *)
(* of st.session_state the handlers read and write, the st.warning /      *)
(* st.error / st.success calls of the latest run, and what the latest run *)
(* displayed.                                                              *)
(***************************************************************************)
EXTENDS Integers, Sequences, FiniteSets, TLC

VARIABLES
    servers,         \* st.session_state.servers: sequence of descriptors
    tools_obj,       \* st.session_state.tools_obj: tool name -> tool object
    connected,       \* st.session_state.connected
    current_screen,  \* st.session_state.current_screen
    mcp_client,      \* st.session_state.mcp_client: 0 for None, else the
                     \* number of the MultiServerMCPClient built last
    pressed,         \* the interaction the latest run handled
    warnings,        \* st.warning calls of the latest connect_to_servers
    notice,          \* st.error / st.success call of the latest run
    resp,            \* behaviour of each endpoint during the latest connect
    result,          \* value returned by the latest tool_obj.ainvoke
    display,         \* what the latest Run Tool displayed
    display2,        \* display obtained from feeding `display` back
    args_schema,     \* args_schema of the tool whose form is drawn
    input_dict       \* field -> initial widget value of the drawn form

vars == << servers, tools_obj, connected, current_screen, mcp_client,
           pressed, warnings, notice, resp, result, display, display2,
           args_schema, input_dict >>

outputVars  == << result, display, display2 >>
formVars    == << args_schema, input_dict >>

---------------------------------------------------------------------------
(* Bounds of the model *)

MaxServers == 2      \* longest endpoint registry explored

MaxConnects == 2     \* most MultiServerMCPClient objects built in a session

---------------------------------------------------------------------------
(* Endpoint registry *)

DefaultUrl == "http://127.0.0.1:8000/mcp"

Urls == { DefaultUrl, "http://10.0.0.2:9000/mcp" }

Transports == { "streamable_http", "stdio" }

DefaultServer == [ url |-> DefaultUrl, transport |-> "streamable_http" ]

Screens == { "Dashboard", "About", "Settings", "Share URL" }

(* the tools an endpoint may serve, in the order it lists them *)
ToolOrder == << "search", "fetch" >>

ToolNames == { ToolOrder[k] : k \in DOMAIN ToolOrder }

---------------------------------------------------------------------------
(* Python values.  A value is a pair << tag, payload >>; a str is the      *)
(* sequence of its characters, a dict the sequence of its << key, value >> *)
(* items in insertion order.                                               *)

PyStr(chars)  == << "str", chars >>
PyInt(n)      == << "int", n >>
PyBool(b)     == << "bool", b >>
PyFloat(n)    == << "float", n >>
PyNone        == << "none", 0 >>
PyList(elems) == << "list", elems >>
PyDict(items) == << "dict", items >>

IsStr(v)  == v[1] = "str"
IsList(v) == v[1] = "list"
IsDict(v) == v[1] = "dict"

DigitChars == << "0", "1", "2", "3", "4", "5", "6", "7", "8", "9" >>

IsDigit(c) == \E d \in 1..10 : DigitChars[d] = c

DigitValue(c) == (CHOOSE d \in 1..10 : DigitChars[d] = c) - 1

RECURSIVE NatStr(_)
NatStr(n) ==
    IF n < 10 THEN << DigitChars[n + 1] >>
    ELSE Append(NatStr(n \div 10), DigitChars[(n % 10) + 1])

(* repr(v) in the place of str(v): a str comes out in quotes *)
repr(v) ==
    CASE v[1] = "str"  -> << "'" >> \o v[2] \o << "'" >>
      [] v[1] = "int"  -> IF v[2] < 0 THEN << "-" >> \o NatStr(-v[2])
                          ELSE NatStr(v[2])
      [] v[1] = "bool" -> IF v[2] THEN << "T", "r", "u", "e" >>
                          ELSE << "F", "a", "l", "s", "e" >>
      [] v[1] = "none" -> << "N", "o", "n", "e" >>

(* str(v) of line 180, for the scalar values a tool returns *)
str(v) ==
    CASE v[1] = "str"  -> v[2]
      [] v[1] = "int"  -> IF v[2] < 0 THEN << "-" >> \o NatStr(-v[2])
                          ELSE NatStr(v[2])
      [] v[1] = "bool" -> IF v[2] THEN << "T", "r", "u", "e" >>
                          ELSE << "F", "a", "l", "s", "e" >>
      [] v[1] = "none" -> << "N", "o", "n", "e" >>

---------------------------------------------------------------------------
(* json.loads, on texts made of the characters                             *)
(*     "  {  }  [  ]  :  ,  space  digits  letters                         *)
(* (no backslash escapes, no sign, fraction or exponent in a number).      *)
(* A scan returns [ok, val, end]: end is the index after the value read.  *)

Whitespace == { " " }

ScanFail == [ ok |-> FALSE, val |-> PyNone, end |-> 0 ]

ScanOk(v, e) == [ ok |-> TRUE, val |-> v, end |-> e ]

RECURSIVE SkipWs(_, _)
SkipWs(s, i) ==
    IF i <= Len(s) /\ s[i] \in Whitespace THEN SkipWs(s, i + 1) ELSE i

CharAt(s, i) == IF i >= 1 /\ i <= Len(s) THEN s[i] ELSE ""

(* py_scanstring: i is the index after the opening quote *)
ScanString(s, i) ==
    IF \E j \in i..Len(s) : s[j] = "\""
    THEN LET j == CHOOSE k \in i..Len(s) :
                      /\ s[k] = "\""
                      /\ \A m \in i..(k - 1) : s[m] # "\""
         IN  ScanOk(PyStr(SubSeq(s, i, j - 1)), j + 1)
    ELSE ScanFail

RECURSIVE DigitRunEnd(_, _)
DigitRunEnd(s, i) ==
    IF i <= Len(s) /\ IsDigit(s[i]) THEN DigitRunEnd(s, i + 1) ELSE i

RECURSIVE DigitsValue(_, _, _)
DigitsValue(s, i, e) ==
    IF i >= e THEN 0
    ELSE DigitsValue(s, i, e - 1) * 10 + DigitValue(s[e - 1])

(* NUMBER_RE: 0 | [1-9][0-9]* *)
ScanNumber(s, i) ==
    IF s[i] = "0" THEN ScanOk(PyInt(0), i + 1)
    ELSE LET e == DigitRunEnd(s, i) IN ScanOk(PyInt(DigitsValue(s, i, e)), e)

Literal(s, i, word) ==
    i + Len(word) - 1 <= Len(s) /\ SubSeq(s, i, i + Len(word) - 1) = word

(* dict(pairs): a repeated key keeps its first position, takes the last value *)
DictPut(items, k, v) ==
    IF \E p \in DOMAIN items : items[p][1] = k
    THEN [ p \in DOMAIN items |->
             IF items[p][1] = k THEN << k, v >> ELSE items[p] ]
    ELSE Append(items, << k, v >>)

RECURSIVE ScanOnce(_, _), ObjectPairs(_, _, _), ArrayItems(_, _, _)

(* JSONObject's loop: i is the index after the opening quote of a key *)
ObjectPairs(s, i, items) ==
    LET key == ScanString(s, i)
        c   == IF key.ok THEN SkipWs(s, key.end) ELSE 0
        v   == IF key.ok /\ CharAt(s, c) = ":"
               THEN ScanOnce(s, SkipWs(s, c + 1)) ELSE ScanFail
        n   == IF v.ok THEN SkipWs(s, v.end) ELSE 0
        q   == SkipWs(s, n + 1)
        got == DictPut(items, key.val[2], v.val)
    IN  IF ~v.ok THEN ScanFail
        ELSE IF CharAt(s, n) = "}" THEN ScanOk(PyDict(got), n + 1)
        ELSE IF CharAt(s, n) = "," /\ CharAt(s, q) = "\""
             THEN ObjectPairs(s, q + 1, got)
        ELSE ScanFail

(* JSONObject: i is the index after the opening brace *)
JSONObject(s, i) ==
    LET n == SkipWs(s, i)
    IN  IF CharAt(s, n) = "}" THEN ScanOk(PyDict(<< >>), n + 1)
        ELSE IF CharAt(s, n) = "\"" THEN ObjectPairs(s, n + 1, << >>)
        ELSE ScanFail

(* JSONArray's loop: i is the index of the next element *)
ArrayItems(s, i, elems) ==
    LET v == ScanOnce(s, i)
        n == IF v.ok THEN SkipWs(s, v.end) ELSE 0
    IN  IF ~v.ok THEN ScanFail
        ELSE IF CharAt(s, n) = "]"
             THEN ScanOk(PyList(Append(elems, v.val)), n + 1)
        ELSE IF CharAt(s, n) = ","
             THEN ArrayItems(s, SkipWs(s, n + 1), Append(elems, v.val))
        ELSE ScanFail

(* JSONArray: i is the index after the opening bracket *)
JSONArray(s, i) ==
    LET n == SkipWs(s, i)
    IN  IF CharAt(s, n) = "]" THEN ScanOk(PyList(<< >>), n + 1)
        ELSE ArrayItems(s, n, << >>)

(* scanner.py_make_scanner._scan_once *)
ScanOnce(s, i) ==
    LET c == CharAt(s, i)
    IN  CASE c = "\"" -> ScanString(s, i + 1)
          [] c = "{"  -> JSONObject(s, i + 1)
          [] c = "["  -> JSONArray(s, i + 1)
          [] c = "n" /\ Literal(s, i, << "n", "u", "l", "l" >>)
                      -> ScanOk(PyNone, i + 4)
          [] c = "t" /\ Literal(s, i, << "t", "r", "u", "e" >>)
                      -> ScanOk(PyBool(TRUE), i + 4)
          [] c = "f" /\ Literal(s, i, << "f", "a", "l", "s", "e" >>)
                      -> ScanOk(PyBool(FALSE), i + 5)
          [] IsDigit(c) -> ScanNumber(s, i)
          [] OTHER    -> ScanFail

(* json.loads(r) of line 172: [ok |-> FALSE] stands for the exception *)
json_loads(s) ==
    LET v == ScanOnce(s, SkipWs(s, 1))
    IN  IF v.ok /\ SkipWs(s, v.end) = Len(s) + 1 THEN v ELSE ScanFail

---------------------------------------------------------------------------
(* Result display of render_dashboard (lines 168-180).  A display is      *)
(* << "dataframe", value >> for st.dataframe(value), << "text", chars >>  *)
(* for st.text(chars), and NoDisplay when nothing is shown.               *)

NoDisplay == << "none", 0 >>

NoResult == << "unset", 0 >>

RawKey == << "r", "a", "w" >>

(* all(isinstance(r, str) for r in result), line 168 *)
AllStr(elems) == \A k \in DOMAIN elems : IsStr(elems[k])

(* the loop body without the wrapping of line 174: the element is kept *)
ParsedRowUnwrapped(r) ==
    LET d == json_loads(r[2])
    IN  IF d.ok THEN d.val ELSE r

(* body of the loop of lines 170-174 *)
ParsedRow(r) ==
    LET d == json_loads(r[2])
    IN  IF d.ok THEN d.val ELSE PyDict(<< << RawKey, r >> >>)

RECURSIVE parsed_rows(_)
parsed_rows(elems) ==
    IF elems = << >> THEN << >>
    ELSE << ParsedRow(Head(elems)) >> \o parsed_rows(Tail(elems))

Normalize(r) ==
    IF IsList(r) /\ AllStr(r[2])
    THEN << "dataframe", PyList(parsed_rows(r[2])) >>
    ELSE IF IsDict(r) \/ IsList(r)
    THEN << "dataframe", r >>
    ELSE << "text", str(r) >>

(* a display taken as a raw result again: the rows as they are, the text  *)
(* as a str                                                               *)
ReadBack(d) == IF d[1] = "text" THEN PyStr(d[2]) ELSE d[2]

---------------------------------------------------------------------------
(* Input form of render_dashboard (lines 127, 146-161).  A schema is       *)
(* [has_properties, properties]; properties is the sequence of            *)
(* << field, meta >> items and a meta is [has_type, type].                *)

(* tool_obj.args_schema.get("properties", {}), line 127 *)
properties(schema) ==
    IF schema.has_properties THEN schema.properties ELSE << >>

(* meta.get("type", "string"), line 147 *)
field_type(meta) == IF meta.has_type THEN meta.type ELSE "string"

(* line 148 *)
default_value(ft) == IF ft = "string" THEN PyStr(<< >>) ELSE PyInt(0)

(* the value= argument of the widget drawn by lines 151-160 *)
WidgetValue(ft) ==
    CASE ft = "string"  -> PyStr(str(default_value(ft)))
      [] ft = "integer" -> PyInt(default_value(ft)[2])
      [] ft = "number"  -> PyFloat(default_value(ft)[2])
      [] ft = "boolean" -> PyBool(FALSE)
      [] OTHER          -> PyStr(str(default_value(ft)))

(* the loop of lines 146-161 over an untouched form *)
RECURSIVE BindForm(_)
BindForm(props) ==
    IF props = << >> THEN << >>
    ELSE << << Head(props)[1], WidgetValue(field_type(Head(props)[2])) >> >>
         \o BindForm(Tail(props))

---------------------------------------------------------------------------
(* Discovery, connect_to_servers (lines 77-106).                          *)
(*                                                                         *)
(* An endpoint either fails or yields a list of tools with distinct       *)
(* names; its behaviour [ok, tools] is fixed for the length of one        *)
(* connect_to_servers call.  A tool object is [name, server]: server is   *)
(* the position of the endpoint that served it and tells the versions of  *)
(* a name apart.                                                           *)

MaxTools == 2        \* longest tool list one endpoint yields

RECURSIVE Listed(_, _)
Listed(S, k) ==
    IF k > Len(ToolOrder) THEN << >>
    ELSE (IF k \in S THEN << ToolOrder[k] >> ELSE << >>) \o Listed(S, k + 1)

ToolLists ==
    { Listed(S, 1) : S \in { T \in SUBSET DOMAIN ToolOrder :
                                 Cardinality(T) <= MaxTools } }

Failing == [ ok |-> FALSE, tools |-> << >> ]

Behaviours == { Failing } \cup { [ ok |-> TRUE, tools |-> s ] : s \in ToolLists }

(* servers_dict of lines 83-86: key server_{i+1} is position i + 1 *)
servers_dict(srv) ==
    [ i \in 1..Len(srv) |->
        [ url |-> srv[i].url, transport |-> srv[i].transport ] ]

(* tools one connection loads *)
load_mcp_tools(r, j) ==
    [ k \in 1..Len(r[j].tools) |-> [ name |-> r[j].tools[k], server |-> j ] ]

RECURSIVE GatherTools(_, _)
GatherTools(r, j) ==
    IF j > Len(r) THEN << >>
    ELSE load_mcp_tools(r, j) \o GatherTools(r, j + 1)

(* client.get_tools() of line 94.  The call names no server, so the client *)
(* loads the tools of every connection, in the order of servers_dict, and  *)
(* raises when any of them fails.                                          *)
get_tools(r) ==
    IF \E j \in 1..Len(r) : ~r[j].ok
    THEN [ ok |-> FALSE, tools |-> << >> ]
    ELSE [ ok |-> TRUE, tools |-> GatherTools(r, 1) ]

(* the loop of lines 91-97, from server_name number i on *)
RECURSIVE DiscoverLoop(_, _, _, _, _)
DiscoverLoop(dict, r, i, all_tools, warned) ==
    IF i > Len(dict) THEN [ all_tools |-> all_tools, warnings |-> warned ]
    ELSE LET got == get_tools(r)
         IN  IF got.ok
             THEN DiscoverLoop(dict, r, i + 1, all_tools \o got.tools, warned)
             ELSE DiscoverLoop(dict, r, i + 1, all_tools,
                      Append(warned, [ server |-> i, url |-> dict[i].url ]))

(* line 99 with the test dropped: the catalog is published regardless *)
NoToolsFoundNever(all_tools) == FALSE

(* not all_tools, line 99 *)
NoToolsFound(all_tools) == all_tools = << >>

(* {t.name: t for t in all_tools}, line 102 *)
BuildCatalog(all_tools) ==
    [ n \in { all_tools[k].name : k \in DOMAIN all_tools } |->
        all_tools[ CHOOSE k \in DOMAIN all_tools :
                       /\ all_tools[k].name = n
                       /\ \A m \in DOMAIN all_tools :
                              all_tools[m].name = n => m <= k ] ]

EmptyCatalog == [ n \in {} |-> 0 ]

---------------------------------------------------------------------------
(* The session *)

SessionInit ==
    /\ servers = << DefaultServer >>
    /\ tools_obj = EmptyCatalog
    /\ connected = FALSE
    /\ current_screen = "Dashboard"
    /\ mcp_client = 0
    /\ pressed = "none"
    /\ warnings = << >>
    /\ notice = "none"
    /\ resp = << >>

OutputInit ==
    /\ result = NoResult
    /\ display = NoDisplay
    /\ display2 = NoDisplay

NoSchema == [ has_properties |-> FALSE, properties |-> << >> ]

FormInit ==
    /\ args_schema = NoSchema
    /\ input_dict = << >>

Init == SessionInit /\ OutputInit /\ FormInit

(* a run that calls neither st.warning nor st.error nor st.success *)
QuietRun ==
    /\ warnings' = << >>
    /\ notice' = "none"
    /\ resp' = << >>

(* line 259 with the test dropped: the connection page is always drawn *)
ConnectionPageAlways == TRUE

(* not st.session_state.connected, line 259: the connection page is drawn *)
ConnectionPage == ~connected

(* line 279 with > 0 in the place of > 1 *)
RemoveOfferedAlways == Len(servers) > 0

(* len(st.session_state.servers) > 1, line 279 *)
RemoveOffered == Len(servers) > 1

RemoveAt(srv, i) == SubSeq(srv, 1, i - 1) \o SubSeq(srv, i + 1, Len(srv))

(* lines 271-278: the user edits the URL or the transport of server i *)
UpdateServer(i, u, t) ==
    /\ ConnectionPage
    /\ i \in 1..Len(servers)
    /\ [ url |-> u, transport |-> t ] # servers[i]
    /\ servers' = [ servers EXCEPT ![i] = [ url |-> u, transport |-> t ] ]
    /\ pressed' = "update"
    /\ QuietRun
    /\ UNCHANGED << tools_obj, connected, current_screen, mcp_client >>
    /\ UNCHANGED << outputVars, formVars >>

(* lines 279-282: Remove Server i *)
RemoveServer(i) ==
    /\ ConnectionPage
    /\ i \in 1..Len(servers)
    /\ RemoveOffered
    /\ servers' = RemoveAt(servers, i)
    /\ pressed' = "remove"
    /\ QuietRun
    /\ UNCHANGED << tools_obj, connected, current_screen, mcp_client >>
    /\ UNCHANGED << outputVars, formVars >>

(* lines 284-287: Add Another MCP Server *)
AddServer ==
    /\ ConnectionPage
    /\ Len(servers) < MaxServers
    /\ servers' = Append(servers, DefaultServer)
    /\ pressed' = "add"
    /\ QuietRun
    /\ UNCHANGED << tools_obj, connected, current_screen, mcp_client >>
    /\ UNCHANGED << outputVars, formVars >>

(* lines 289-290 and 77-106: Connect to All *)
ConnectToAll ==
    /\ ConnectionPage
    /\ mcp_client < MaxConnects
    /\ pressed' = "connect"
    /\ \E r \in [ 1..Len(servers) -> Behaviours ] :
          LET found == DiscoverLoop(servers_dict(servers), r, 1, << >>, << >>)
          IN  /\ mcp_client' = mcp_client + 1
              /\ resp' = r
              /\ warnings' = found.warnings
              /\ IF NoToolsFound(found.all_tools)
                 THEN /\ notice' = "error: no tools"
                      /\ UNCHANGED << tools_obj, connected, current_screen >>
                 ELSE /\ tools_obj' = BuildCatalog(found.all_tools)
                      /\ connected' = TRUE
                      /\ current_screen' = "Dashboard"
                      /\ notice' = "success"
    /\ UNCHANGED << servers, outputVars, formVars >>

(* lines 295-300: the navigation radio *)
Navigate(screen) ==
    /\ ~ConnectionPage
    /\ screen \in Screens
    /\ screen # current_screen
    /\ current_screen' = screen
    /\ pressed' = "navigate"
    /\ QuietRun
    /\ result' = NoResult
    /\ display' = NoDisplay
    /\ UNCHANGED << servers, tools_obj, connected, mcp_client, display2 >>
    /\ UNCHANGED formVars

(* values a tool returns in the session model *)
SessionResults ==
    { PyStr(<< "h", "e", "l", "l", "o" >>),
      PyList(<< PyStr(<< "{", "\"", "a", "\"", ":", "1", "}" >>),
                PyStr(<< "n", "o", "t", " ", "j", "s", "o", "n" >>) >>),
      PyDict(<< << << "a" >>, PyInt(1) >> >>) }

(* lines 165-180: ainvoke returned r and r was displayed *)
InvokeReturned(r) ==
    /\ result' = r
    /\ display' = Normalize(r)
    /\ notice' = "none"
    /\ UNCHANGED << servers, tools_obj, connected, current_screen, mcp_client >>

(* an error handler that also drops the connection *)
InvokeRaisedDisconnects ==
    /\ result' = NoResult
    /\ display' = NoDisplay
    /\ notice' = "error: running tool"
    /\ tools_obj' = EmptyCatalog
    /\ connected' = FALSE
    /\ UNCHANGED << servers, current_screen, mcp_client >>

(* lines 181-182: ainvoke raised *)
InvokeRaised ==
    /\ result' = NoResult
    /\ display' = NoDisplay
    /\ notice' = "error: running tool"
    /\ UNCHANGED << servers, tools_obj, connected, current_screen, mcp_client >>

(* the Dashboard is drawn with a tool to select, lines 311 and 121 *)
RunOffered ==
    /\ ~ConnectionPage
    /\ current_screen = "Dashboard"
    /\ DOMAIN tools_obj # {}

(* lines 163-182: Run Tool on the selected tool *)
RunTool(tool_name) ==
    /\ RunOffered
    /\ tool_name \in DOMAIN tools_obj
    /\ pressed' = "run"
    /\ \/ \E r \in SessionResults : InvokeReturned(r)
       \/ InvokeRaised
    /\ warnings' = << >>
    /\ resp' = << >>
    /\ UNCHANGED << display2, formVars >>

Next ==
    \/ \E i \in 1..MaxServers, u \in Urls, t \in Transports : UpdateServer(i, u, t)
    \/ \E i \in 1..MaxServers : RemoveServer(i)
    \/ AddServer
    \/ ConnectToAll
    \/ \E screen \in Screens : Navigate(screen)
    \/ \E tool_name \in ToolNames : RunTool(tool_name)

Spec == Init /\ [][Next]_vars

---------------------------------------------------------------------------
(* The result display alone: a tool returns `result`, the Dashboard       *)
(* displays it, and the display is taken as a result once more.           *)

MaxListLen == 2      \* longest list a tool returns

Texts ==
    { << >>,
      << "1" >>,
      << "1", "1" >>,
      << " ", "1", " " >>,
      << "\"", "\"" >>,
      << "\"", "a", "\"" >>,
      << "\"", "1", "\"" >>,
      << "{", "}" >>,
      << "{", "\"", "a", "\"", ":", "1", "}" >>,
      << "[", "1", "]" >>,
      << "n", "u", "l", "l" >>,
      << "t", "r", "u", "e" >>,
      << "n", "o", "t", " ", "j", "s", "o", "n" >>,
      << "h", "e", "l", "l", "o" >>,
      << "{" >>,
      << "\"", "a" >> }

SampleDict == PyDict(<< << << "a" >>, PyInt(1) >> >>)

Scalars ==
    { PyStr(t) : t \in Texts } \cup
    { PyInt(0), PyInt(5), PyInt(-7), PyNone, PyBool(TRUE), PyBool(FALSE) }

Elements == { PyStr(t) : t \in Texts } \cup { SampleDict, PyInt(1) }

RawResults ==
    Scalars \cup { SampleDict } \cup
    { PyList(s) : s \in UNION { [ 1..n -> Elements ] : n \in 0..MaxListLen } }

NormInit ==
    /\ SessionInit
    /\ FormInit
    /\ result \in RawResults
    /\ display = NoDisplay
    /\ display2 = NoDisplay

(* lines 168-180 on the value returned *)
ShowResult ==
    /\ display = NoDisplay
    /\ display' = Normalize(result)
    /\ UNCHANGED << servers, tools_obj, connected, current_screen, mcp_client,
                    pressed, warnings, notice, resp, result, display2 >>
    /\ UNCHANGED formVars

(* lines 168-180 on the value displayed *)
ShowAgain ==
    /\ display # NoDisplay
    /\ display2 = NoDisplay
    /\ display2' = Normalize(ReadBack(display))
    /\ UNCHANGED << servers, tools_obj, connected, current_screen, mcp_client,
                    pressed, warnings, notice, resp, result, display >>
    /\ UNCHANGED formVars

NormNext == ShowResult \/ ShowAgain

SpecNorm == NormInit /\ [][NormNext]_vars

---------------------------------------------------------------------------
(* The input form alone: the Dashboard draws the form of a tool whose     *)
(* args_schema is `schema`.                                                *)

MaxFields == 2       \* most properties of a schema

FieldNames == { "x", "y", "z" }

FieldTypes == { "string", "integer", "number", "boolean", "array" }

Metas ==
    { [ has_type |-> FALSE, type |-> "" ] } \cup
    { [ has_type |-> TRUE, type |-> t ] : t \in FieldTypes }

PropertyLists ==
    { p \in UNION { [ 1..n -> FieldNames \X Metas ] : n \in 0..MaxFields } :
        \A a, b \in DOMAIN p : a # b => p[a][1] # p[b][1] }

Schemas ==
    { NoSchema } \cup
    { [ has_properties |-> TRUE, properties |-> p ] : p \in PropertyLists }

FormSpecInit == SessionInit /\ OutputInit /\ FormInit

(* lines 127 and 146-161 *)
DrawForm(schema) ==
    /\ args_schema' = schema
    /\ input_dict' = BindForm(properties(schema))
    /\ UNCHANGED << servers, tools_obj, connected, current_screen, mcp_client,
                    pressed, warnings, notice, resp >>
    /\ UNCHANGED outputVars

FormNext == \E schema \in Schemas : DrawForm(schema)

SpecForm == FormSpecInit /\ [][FormNext]_vars

---------------------------------------------------------------------------
(* Properties *)

(* endpoints of behaviour r that answered, and the names they served *)
Answered(r) == { j \in 1..Len(r) : r[j].ok }

Served(r, j) == { r[j].tools[k] : k \in 1..Len(r[j].tools) }

Discovered(r) == UNION { Served(r, j) : j \in Answered(r) }

LastServing(r, n) ==
    CHOOSE j \in Answered(r) :
        /\ n \in Served(r, j)
        /\ \A m \in Answered(r) : n \in Served(r, m) => m <= j

Failed(r) == { j \in 1..Len(r) : ~r[j].ok }

WarningsFor(j) == { k \in DOMAIN warnings : warnings[k].server = j }

AfterConnect == pressed = "connect"

(* C1: after a connect in which at least one endpoint yields one or more  *)
(* tools, connected is true and the catalog's keys are exactly the union  *)
(* of the discovered names, each mapped to the version of the last        *)
(* endpoint, in descriptor order, that discovered it.                     *)
C1_UnionLastWriterWins ==
    (AfterConnect /\ \E j \in Answered(resp) : Served(resp, j) # {}) =>
        /\ connected
        /\ DOMAIN tools_obj = Discovered(resp)
        /\ \A n \in DOMAIN tools_obj :
               tools_obj[n] = [ name |-> n, server |-> LastServing(resp, n) ]

(* C2: after a connect in which every endpoint fails or yields zero       *)
(* tools, connected is false, the catalog is empty and there is exactly   *)
(* one warning per failed endpoint (none for one that answered).          *)
C2_OneWarningPerFailedEndpoint ==
    (AfterConnect /\ \A j \in Answered(resp) : Served(resp, j) = {}) =>
        /\ ~connected
        /\ DOMAIN tools_obj = {}
        /\ Len(warnings) = Cardinality(Failed(resp))

(* C3: failures are isolated per descriptor: after a connect, a           *)
(* descriptor has exactly one warning when its endpoint failed and none   *)
(* otherwise, and the tools of the endpoints that answered are the ones   *)
(* published.                                                              *)
C3_FailuresIsolated ==
    AfterConnect =>
        /\ \A j \in 1..Len(resp) :
               Cardinality(WarningsFor(j)) = IF resp[j].ok THEN 0 ELSE 1
        /\ { tools_obj[n] : n \in DOMAIN tools_obj } =
               { [ name |-> n, server |-> LastServing(resp, n) ] :
                   n \in Discovered(resp) }

(* C4: the endpoint registry always holds at least one descriptor, and no *)
(* remove is possible while exactly one descriptor remains.               *)
C4_RegistryNeverEmpty ==
    /\ Len(servers) >= 1
    /\ Len(servers) = 1 => \A i \in 1..MaxServers : ~ENABLED RemoveServer(i)

C4_Witness == pressed = "remove" /\ Len(servers) = 1

(* C5: a run of a tool that ends in an error leaves the catalog, the      *)
(* connected flag and the endpoint registry as they were, and a further   *)
(* run can be issued from the state it leaves.                            *)
C5_FailedInvokeKeepsSession ==
    [][ ( /\ \E tool_name \in ToolNames : RunTool(tool_name)
          /\ notice' = "error: running tool" ) =>
        ( /\ tools_obj' = tools_obj
          /\ connected' = connected
          /\ servers' = servers
          /\ RunOffered' ) ]_vars

C5_Witness ==
    /\ pressed = "run"
    /\ notice = "error: running tool"
    /\ connected
    /\ DOMAIN tools_obj # {}

(* C6: after any connect attempt, failed or not, every entry of the       *)
(* catalog is a tool an endpoint yielded during that attempt.             *)
C6_CatalogRebuiltWholesale ==
    AfterConnect =>
        \A n \in DOMAIN tools_obj :
            \E j \in Answered(resp) :
                /\ n \in Served(resp, j)
                /\ tools_obj[n] = [ name |-> n, server |-> j ]

C6_Witness ==
    /\ AfterConnect
    /\ mcp_client >= 2
    /\ connected
    /\ Cardinality(DOMAIN tools_obj) = 2

(* C7: the initial value of a form field is the empty string for a string *)
(* field, zero for an integer or number field, false for a boolean field, *)
(* and the empty string for a field whose type is missing or not one of   *)
(* those.                                                                  *)
C7_DefaultsByType ==
    \A k \in DOMAIN input_dict :
        LET meta == properties(args_schema)[k][2]
            v    == input_dict[k][2]
        IN  IF meta.has_type /\ meta.type \in { "integer", "number" }
            THEN v[1] \in { "int", "float" } /\ v[2] = 0
            ELSE IF meta.has_type /\ meta.type = "boolean"
            THEN v = PyBool(FALSE)
            ELSE v = PyStr(<< >>)

Rows == display[2][2]

Shown == display # NoDisplay

StringBatch == IsList(result) /\ AllStr(result[2])

(* the row the claim gives element e of a batch *)
DecodedOrRaw(e) ==
    IF json_loads(e[2]).ok THEN json_loads(e[2]).val
    ELSE PyDict(<< << RawKey, e >> >>)

(* C8 as amended: for a result that is a sequence of strings, the display *)
(* is tabular rows of the same length and order, row i being the decoded  *)
(* value of element i when that element is valid JSON and the mapping     *)
(* raw -> element i otherwise; a row is a mapping whenever its element is *)
(* not valid JSON or decodes to an object.                                 *)
C8_RowsDecodedOrRaw ==
    (Shown /\ StringBatch) =>
        /\ display[1] = "dataframe"
        /\ IsList(display[2])
        /\ Len(Rows) = Len(result[2])
        /\ \A i \in 1..Len(Rows) :
               /\ Rows[i] = DecodedOrRaw(result[2][i])
               /\ ( ~json_loads(result[2][i][2]).ok
                    \/ IsDict(json_loads(result[2][i][2]).val) )
                  => IsDict(Rows[i])

C8_Witness ==
    /\ Shown
    /\ result = PyList(<< PyStr(<< "{", "\"", "a", "\"", ":", "1", "}" >>),
                          PyStr(<< "n", "o", "t", " ", "j", "s", "o", "n" >>) >>)
    /\ Rows = << SampleDict,
                 PyDict(<< << RawKey,
                     PyStr(<< "n", "o", "t", " ", "j", "s", "o", "n" >>) >> >>) >>

(* C8 as stated: the same, and every row of the output is a mapping.      *)
C8_EveryRowIsMapping ==
    (Shown /\ StringBatch) =>
        /\ display[1] = "dataframe"
        /\ Len(Rows) = Len(result[2])
        /\ \A i \in 1..Len(Rows) :
               Rows[i] = DecodedOrRaw(result[2][i]) /\ IsDict(Rows[i])

ShownAgain == display2 # NoDisplay

(* a non-empty sequence of strings each of which is the JSON text of a    *)
(* string                                                                  *)
BatchOfJsonStrings(r) ==
    /\ IsList(r)
    /\ r[2] # << >>
    /\ \A k \in DOMAIN r[2] :
           /\ IsStr(r[2][k])
           /\ json_loads(r[2][k][2]).ok
           /\ IsStr(json_loads(r[2][k][2]).val)

(* C9 as amended: displaying the display of r gives the display of r      *)
(* again, except when r is a non-empty sequence of strings each of which  *)
(* is the JSON text of a string; for those the second display differs.    *)
C9_IdempotentUnlessJsonStrings ==
    ShownAgain => ( display2 = display <=> ~BatchOfJsonStrings(result) )

C9_Witness ==
    /\ ShownAgain
    /\ result = PyList(<< PyStr(<< "n", "o", "t", " ", "j", "s", "o", "n" >>) >>)
    /\ display2 = display

(* C9 as stated: displaying the display of any r gives the display of r.  *)
C9_Idempotent == ShownAgain => display2 = display

(* C10: connected is true exactly when the catalog is non-empty, and no   *)
(* connect can be triggered while connected is true.                      *)
C10_ConnectedIffCatalog ==
    /\ connected <=> DOMAIN tools_obj # {}
    /\ connected => ~ENABLED ConnectToAll

C10_Witness ==
    /\ pressed = "run"
    /\ connected
    /\ DOMAIN tools_obj # {}
    /\ mcp_client >= 2
    /\ Len(servers) = 2

====
